---- MODULE Spec2Model ----
(***************************************************************************)
(* Janus: the upstream Qtum JSON-RPC client (pkg/qtum/client.go) and the   *)
(* method registry (pkg/transformer/transformer.go).                       *)
(*                                                                         *)
(* The specifications share the variables below:                           *)
(*   Spec     one caller goroutine issuing RequestWithContext calls one    *)
(*            after the other, with the upstream, the error handler, the   *)
(*            contexts and the cache expiry as environment;                *)
(*   SpecID   several goroutines inside NewRPCRequest at the same time;    *)
(*   SpecReg  the transformer registry: New, Register, Transform;          *)
(*   SpecCache calls one after the other on a client with a cache;         *)
(*   SpecFlag goroutines calling SetFlag and GetFlag at the same time;     *)
(*   SpecIO   goroutines going through NewRPCRequest and Do step by step;  *)
(*   SpecDo   one goroutine calling Do against every upstream answer;      *)
(*   SpecBackoff  computeBackoff on its own.                               *)
(***************************************************************************)
EXTENDS Integers, Sequences, FiniteSets, TLC

VARIABLES
    \* ---- qtum.Client fields
    id,             \* c.id, the big.Int request counter
    errorHandler,   \* c.errorHandler: "nil" or "set"
    clientCtx,      \* c.ctx: "nil" or the context "C"
    debug,          \* c.debug
    logWriter,      \* c.logWriter: "nil" or "set"
    flags,          \* c.flags
    cache,          \* c.cache: key -> raw result bytes or Nil
    \* ---- contexts
    cancelled,      \* the contexts whose Done channel is closed
    \* ---- the running RequestWithContext call (locals of the caller goroutine)
    pc,             \* "idle", "loop", "sleep", "woken", "done"
    ctxArg,         \* the ctx argument as passed
    ctx,            \* ctx after the nil default of lines 150-152
    method,
    params,
    target,         \* the type behind the result pointer
    cachedResult,   \* the bytes the cache lookup returned, or Nil
    req,            \* the ID of the JSONRPCRequest built by NewRPCRequest, 0 before
    i,              \* the loop index
    err,            \* err of the last Do (NilErr: nil)
    resp,           \* RawResult of the last successful Do
    handledErrors,  \* the handledErrors map (its key set)
    retry,          \* retry of the last failed attempt (line 187)
    ret,            \* what the call returned: NilErr, an error, or Panic
    result,         \* what was unmarshalled into *result
    \* ---- observations of the running call
    attempts,       \* calls of Do made by this call
    handlerCalls,   \* invocations of the error handler by this call
    wqdFails,       \* attempts of this call that failed with ErrQtumWorkQueueDepth
    sleeps,         \* the backoff indices slept on, in order
    interrupted,    \* the call's backoff was ended by the done channel
    hit,            \* the call was answered from the cache
    stored,         \* the bytes the call gave to storeResponse, or Nil
    handlerArgs,    \* the errors passed to the error handler, in order
    recovered,      \* the errors retried on the handler's answer alone, in order
    \* ---- observations across calls
    callsLeft,      \* calls the caller may still start
    prevSame,       \* the call repeats the previous, successful, unexpired one
    prevAttempts,   \* attempts of that previous call
    expiredSince,   \* a cache entry expired since the running call started
    \* ---- goroutines inside NewRPCRequest (SpecID)
    idMutex,        \* the goroutine holding c.idMutex, 0 when it is free
    idWriting,      \* a big.Int Add on c.id is in progress
    gpc,            \* per goroutine: "start", "locked", "adding", "added", "unlocked", "built"
    gOwn,           \* per goroutine: the counter value its own Add produced
    gReqID,         \* per goroutine: the ID placed in its request
    \* ---- transformer (SpecReg)
    transformers,   \* t.transformers: method -> proxy (the nil map is the empty one)
    tpc,            \* "none" before New, then "ready" (New returned t) or "failed"
    newArgs,        \* the arguments New was given
    newErr,         \* the error New returned
    regArg,         \* the proxy given to the last Register call on t
    regBefore,      \* t.transformers before that call
    regErr,         \* the error it returned
    trReq,          \* the method of the last Transform request
    trRet,          \* what that Transform returned: [result, err]
    invoked,        \* the proxies whose Request that Transform invoked
    \* ---- the flag store under c.mutex (SpecFlag, SpecIO)
    fWriter,        \* the goroutine that holds c.mutex for writing or waits for the
                    \* readers to leave (new readers are held back), 0 when none
    fReaders,       \* the goroutines holding c.mutex for reading
    fpc,            \* per goroutine: "idle", "lockWait", "locked", "written", "rlocked", "read"
    fOp,            \* per goroutine: the SetFlag / GetFlag call it is in
    fGot,           \* per goroutine: what its last GetFlag read
    lastSet,        \* per key: the value of the latest completed SetFlag, NilValue if none
    fOpsLeft,       \* flag-store calls the application goroutines may still start
    \* ---- goroutines inside Do (SpecIO)
    gBody,          \* per goroutine: the upstream's reply to its c.do
    gRes,           \* per goroutine: what its Do returned
    \* ---- computeBackoff on its own (SpecBackoff)
    boIdx,          \* the argument i
    boRandom,       \* the argument random
    boDraw,         \* what rand.Intn(500) returns
    boTime,         \* the duration returned, in milliseconds; -1 before the call
    \* ---- analytics (SpecAnalytics)
    analytics,      \* c.analytics: Nil, or "set" by the option SetAnalytics
    successes,      \* the calls of c.analytics.Success() so far
    failures        \* the calls of c.analytics.Failure() so far

clientVars == <<id, errorHandler, clientCtx, debug, logWriter, flags, cache>>
callVars   == <<pc, ctxArg, ctx, method, params, target, cachedResult, req, i, err, resp,
                handledErrors, retry, ret, result>>
obsVars    == <<attempts, handlerCalls, wqdFails, sleeps, interrupted, hit, stored,
                handlerArgs, recovered>>
histVars   == <<callsLeft, prevSame, prevAttempts, expiredSince>>
idVars     == <<idMutex, idWriting, gpc, gOwn, gReqID>>
regVars    == <<transformers, tpc, newArgs, newErr, regArg, regBefore, regErr,
                trReq, trRet, invoked>>
flagVars   == <<fWriter, fReaders, fpc, fOp, fGot, lastSet, fOpsLeft>>
ioVars     == <<gBody, gRes>>
backoffVars == <<boIdx, boRandom, boDraw, boTime>>
anVars     == <<analytics, successes, failures>>
vars       == <<clientVars, cancelled, callVars, obsVars, histVars, idVars, regVars,
                flagVars, ioVars, backoffVars, anVars>>

Nil == "nil"

----------------------------------------------------------------------------
(* Bounds of the model *)

MaxCalls == 2
NumGoroutines == 3
MaxProxies == 3
MaxFlagOps == 4
MaxIndex == 12

----------------------------------------------------------------------------
(* Program constants *)

maximumRequestTime == 10000
maximumBackoff == 2000

Max(a, b) == IF a >= b THEN a ELSE b
Min(a, b) == IF a <= b THEN a ELSE b

RECURSIVE Pow2(_)
Pow2(n) == IF n = 0 THEN 1 ELSE 2 * Pow2(n - 1)

----------------------------------------------------------------------------
(* Values *)

Contexts      == {"C", "R"}          \* C: the client-wide context; R: another one
Methods       == {"getblock", "sendtoaddress"}
ParamValues   == {"p1", "p2"}
RawResults    == {"jsonString", "jsonNumber"}
Targets       == {"interface", "string"}
FLAG_DISABLE_SNIPPING_LOGS == "DISABLE_SNIPPING_LOGS"
FLAG_HIDE_QTUMD_LOGS == "HIDE_QTUMD_LOGS"
FLAG_MATURE_BLOCK_HEIGHT_OVERRIDE == "FLAG_MATURE_BLOCK_HEIGHT_OVERRIDE"
LogFlagKeys   == {FLAG_DISABLE_SNIPPING_LOGS, FLAG_HIDE_QTUMD_LOGS}
FlagKeys      == LogFlagKeys \cup {FLAG_MATURE_BLOCK_HEIGHT_OVERRIDE}

(* An error value.  uid = 0 is a package-level error variable (one value for   *)
(* the whole process); uid > 0 is an error allocated by the attempt of that     *)
(* number (errors.Wrap, a json error, the error object of a response), which    *)
(* no other attempt's error equals as a map key.                                *)
Error(kind, uid) == [kind |-> kind, uid |-> uid]

NilErr                == Error("nil", 0)      \* the nil error
Panic                 == Error("panic", 0)    \* not a return: the goroutine panicked
ErrQtumWorkQueueDepth == Error("WorkQueueDepth", 0)
ErrInternalError      == Error("InternalError", 0)
ErrKnown              == Error("Known", 0)
ErrHandler            == Error("Handler", 0)
ContextCanceled       == Error("context.Canceled", 0)

(* strings.Contains(err.Error(), ErrQtumWorkQueueDepth.Error()) *)
ContainsWorkQueueDepth(e) == e.kind = "WorkQueueDepth"

(* json.Unmarshal(raw, result): a JSON string fits a *string and an        *)
(* *interface{}, a JSON number only an *interface{}.                       *)
Unmarshal(raw, t) == t = "interface" \/ raw = "jsonString"

(* What the upstream (the doer) answers to one attempt. *)
Reply(kind, raw) == [kind |-> kind, raw |-> raw]
(* kinds of failing answers: no answer at all (transport); the bodies "",   *)
(* the work-queue-depth text, a text with "503 Service Unavailable", another *)
(* text that is not JSON, the JSON null; and JSON-RPC responses with an       *)
(* error member, known or not to the error table, with or without the 503    *)
(* text in the message                                                       *)
FailureKinds == {"transport", "empty", "wqdtext", "503", "garbage", "null",
                 "rpcKnown", "rpcUnknown", "rpcKnown503", "rpcUnknown503"}
Results == {Reply("result", r) : r \in RawResults}
Replies == {Reply(k, Nil) : k \in FailureKinds} \cup Results
NoReply == Reply(Nil, Nil)

----------------------------------------------------------------------------
(* The response cache *)

CachableMethods == {"getblock"}
CacheKeys == CachableMethods \X ParamValues

isCachable(m) == m \in CachableMethods

getResponse(m, p) == cache[<<m, p>>]

storeResponse(m, p, raw) == [cache EXCEPT ![<<m, p>>] = raw]

(* a request path that never consults the cache *)
CacheLookupSkipped(m, p) == Nil

(* lines 155-159: cachedResult, Nil when the method is not cachable or the *)
(* cache has nothing for it                                                *)
CacheLookup(m, p) == IF isCachable(m) THEN getResponse(m, p) ELSE Nil

----------------------------------------------------------------------------
(* Client.Do *)

IsKnownError(e) == e.kind = "Known"

(* (res, err) of responseBodyToResult for the body of reply r, attempt n *)
responseBodyToResult(r, n) ==
    CASE r.kind = "result"                         -> [res |-> r.raw, err |-> NilErr]
      [] r.kind = "null"                           -> [res |-> Nil, err |-> Panic]
      [] r.kind \in {"rpcKnown", "rpcKnown503"}     -> [res |-> Nil, err |-> ErrKnown]
      [] r.kind \in {"rpcUnknown", "rpcUnknown503"} -> [res |-> Nil, err |-> Error("RPCError", n)]
      [] OTHER                                     -> [res |-> Nil, err |-> Error("JSONSyntax", n)]

(* len(respBody) == 0 *)
IsEmptyBody(r) == r.kind = "empty"

(* string(respBody) == ErrQtumWorkQueueDepth.Error() *)
IsWorkQueueDepthText(r) == r.kind = "wqdtext"

(* strings.Contains(string(respBody), "503 Service Unavailable") *)
Contains503(r) == r.kind \in {"503", "rpcKnown503", "rpcUnknown503"}

(* a Do that looks at the text of the body before the known-error table *)
DoTextFirst(r, n) ==
    IF r.kind = "transport"
    THEN [res |-> Nil, err |-> Error("ClientDo", n)]
    ELSE LET b == responseBodyToResult(r, n) IN
         IF b.err = Panic THEN b
         ELSE IF b.err # NilErr
         THEN CASE IsEmptyBody(r)          -> [res |-> Nil, err |-> Error("EmptyResponse", n)]
                [] IsWorkQueueDepthText(r) -> [res |-> Nil, err |-> ErrQtumWorkQueueDepth]
                [] Contains503(r)          -> [res |-> Nil, err |-> ErrInternalError]
                [] OTHER                   -> [res |-> Nil, err |-> b.err]
         ELSE b

(* (res, err) of Do when the upstream answers attempt n with reply r *)
Do(r, n) ==
    IF r.kind = "transport"
    THEN [res |-> Nil, err |-> Error("ClientDo", n)]
    ELSE LET b == responseBodyToResult(r, n) IN
         IF b.err = Panic THEN b     \* res is nil: res.Error dereferences it
         ELSE IF b.err # NilErr
         THEN CASE IsEmptyBody(r)          -> [res |-> Nil, err |-> Error("EmptyResponse", n)]
                [] IsKnownError(b.err)     -> [res |-> Nil, err |-> b.err]
                [] IsWorkQueueDepthText(r) -> [res |-> Nil, err |-> ErrQtumWorkQueueDepth]
                [] Contains503(r)          -> [res |-> Nil, err |-> ErrInternalError]
                [] OTHER                   -> [res |-> Nil, err |-> b.err]
         ELSE b

NoDoResult == [res |-> Nil, err |-> NilErr]

(* the deferred c.failure() / c.success() Do registers before it returns:   *)
(* line 253 after a transport failure, line 274 after a body that does not  *)
(* parse to a result, line 295 otherwise; none when responseBodyToResult    *)
(* panics, which is before any of them                                      *)
DoOutcome(r, n) ==
    IF r.kind = "transport" THEN "failure"
    ELSE LET b == responseBodyToResult(r, n) IN
         IF b.err = Panic THEN "none"
         ELSE IF b.err # NilErr THEN "failure"
         ELSE "success"

----------------------------------------------------------------------------
(* The retry loop of RequestWithContext *)

(* a loop bound one too large *)
MaxAttemptsOneMore == Max(maximumRequestTime \div maximumBackoff, 1) + 1

(* max := int(math.Floor(math.Max(float64(maximumRequestTime/int(maximumBackoff)), 1))) *)
MaxAttempts == Max(maximumRequestTime \div maximumBackoff, 1)

(* line 183: the loop condition i < max *)
LoopContinues(idx) == idx < MaxAttempts

(* What an error handler may return for e: nil, e itself, or an error of its own *)
HandlerReturns(e) == {NilErr, e, ErrHandler}

(* a retry decision that forgets the last-attempt test of line 188 *)
HandlerRetryAnyIndex(handlerErr, idx) ==
    handlerErr # NilErr /\ handlerErr \notin handledErrors

(* lines 187-194: retry, and the handledErrors map after it *)
HandlerRetry(handlerErr, idx) ==
    handlerErr # NilErr /\ idx # MaxAttempts - 1 /\ handlerErr \notin handledErrors

HandledAfter(e, handlerErr, idx) ==
    IF HandlerRetry(handlerErr, idx) THEN handledErrors \cup {e} ELSE handledErrors

(* a loop that backs off after its last attempt too *)
ShouldBackoffLast(rt, e, idx) == rt \/ ContainsWorkQueueDepth(e)

(* a loop that backs off after every failure but the last *)
ShouldBackoffAlways(rt, e, idx) == idx # MaxAttempts - 1

(* a loop that retries only what the handler recovered *)
ShouldBackoffHandlerOnly(rt, e, idx) == rt /\ idx # MaxAttempts - 1

(* line 195 *)
ShouldBackoff(rt, e, idx) ==
    (rt \/ ContainsWorkQueueDepth(e)) /\ idx # MaxAttempts - 1

(* a backoff that is not capped at maximumBackoff *)
computeBackoffUncapped(idx, random, rnd) ==
    250 * Pow2(Min(idx, 10)) + (IF random THEN rnd - 250 ELSE 0)

(* computeBackoff(i, random) in milliseconds, with rand.Intn(500) = rnd *)
computeBackoff(idx, random, rnd) ==
    LET k    == Min(idx, 10)
        randomNumberMilliseconds == IF random THEN rnd - 250 ELSE 0
        base == 250 * Pow2(k)
    IN  Min(base + randomNumberMilliseconds, maximumBackoff)

(* the values of rand.Intn(500), and the ones the retry loop is run with *)
AllDraws == 0..499
RandomDraws == {0, 250, 499}

(* lines 200-205: the channel the backoff select listens on is closed *)
DoneClosed == clientCtx # Nil /\ clientCtx \in cancelled

(* ctx.Err() of the call's context *)
CtxErr(c) == IF c # Nil /\ c \in cancelled THEN ContextCanceled ELSE NilErr

(* errors.WithMessage(e, "context cancelled"): nil for a nil e, else a new *)
(* error around e                                                          *)
WithMessage(e, n) == IF e = NilErr THEN NilErr ELSE Error("ContextCancelledMessage", n)

(* errors.Wrap(err, "couldn't unmarshal response result field") *)
WrapUnmarshal(n) == Error("UnmarshalResult", n)

(* A flag value (an interface{}): its dynamic type and its value; NilValue is *)
(* the nil interface a missing key reads as.                                  *)
Value(type, v) == [type |-> type, v |-> v]
NilValue == Value("nil", "nil")
BoolValue(b) == Value("bool", IF b THEN "true" ELSE "false")

GetFlag(key) == flags[key]

(* lines 392-399: the bool behind a flag value, false for nil and non-bool *)
FlagBool(value) ==
    IF value = NilValue THEN FALSE
    ELSE IF value.type # "bool" THEN FALSE
    ELSE value.v = "true"

GetFlagBool(key) == FlagBool(GetFlag(key))

(* lines 404-411: the int behind a flag value, nil for nil and for a value  *)
(* whose dynamic type is not int                                            *)
FlagInt(value) ==
    IF value = NilValue THEN Nil
    ELSE IF value.type # "int" THEN Nil
    ELSE value.v

GetFlagInt(key) == FlagInt(GetFlag(key))

(* the heights an operator may configure, and the value the option          *)
(* SetMatureBlockHeight(height) stores: the *int itself, nothing for nil    *)
Heights == {"0", "813", "2000"}
SetMatureBlockHeight(height) ==
    IF height # Nil THEN Value("*int", height) ELSE NilValue

---------------------------------------------------------------------------------------------------------------------------------------------------
(* transformer.Transformer *)

(* An ETHProxy: the handler value and the name its Method() returns *)
Proxy(name, m) == [name |-> name, method |-> m]
NoProxy == Proxy(Nil, Nil)
Proxies == { Proxy("ProxyETHCall", "eth_call"),
             Proxy("OtherETHCall", "eth_call"),
             Proxy("ProxyETHChainId", "eth_chainId") }
RequestMethods == {"eth_call", "eth_chainId", "eth_foo"}

EmptyMap == [m \in {} |-> NoProxy]

(* eth.JSONRPCError *)
RPCError(code, message) == [code |-> code, message |-> message]
NoRPCError == RPCError(0, Nil)
NewMethodNotFoundError(m) == RPCError(-32601, m)

(* what a proxy's Request may return *)
HandlerResults(p) == { [result |-> p.name, err |-> NoRPCError],
                       [result |-> Nil, err |-> RPCError(-32000, p.name)] }
NoReturn == [result |-> Nil, err |-> NoRPCError]

ErrMethodExists == Error("method already exist", 0)
ErrNilClient    == Error("qtumClient cannot be nil", 0)
ErrOption       == Error("option", 0)

(* Register that replaces the handler of a registered method *)
RegisterOverwrite(tr, p) ==
    [err |-> NilErr,
     tr  |-> [m \in DOMAIN tr \cup {p.method} |-> IF m = p.method THEN p ELSE tr[m]]]

(* Register, lines 47-60: the error returned and the map afterwards *)
Register(tr, p) ==
    IF p.method \in DOMAIN tr
    THEN [err |-> ErrMethodExists, tr |-> tr]
    ELSE [err |-> NilErr,
          tr  |-> [m \in DOMAIN tr \cup {p.method} |-> IF m = p.method THEN p ELSE tr[m]]]

(* the loop of New, lines 31-35, over the proxies ps from position n on *)
RECURSIVE RegisterAll(_, _, _)
RegisterAll(tr, ps, n) ==
    IF n > Len(ps) THEN [err |-> NilErr, tr |-> tr]
    ELSE LET r == Register(tr, ps[n]) IN
         IF r.err # NilErr THEN r ELSE RegisterAll(r.tr, ps, n + 1)

(* a lookup that falls back on some registered handler *)
getProxyFallback(tr, m) ==
    IF m \in DOMAIN tr THEN [proxy |-> tr[m], err |-> NoRPCError]
    ELSE IF DOMAIN tr # {}
    THEN [proxy |-> tr[CHOOSE x \in DOMAIN tr : TRUE], err |-> NoRPCError]
    ELSE [proxy |-> NoProxy, err |-> NewMethodNotFoundError(m)]

(* getProxy, lines 75-81 *)
getProxy(tr, m) ==
    IF m \in DOMAIN tr
    THEN [proxy |-> tr[m], err |-> NoRPCError]
    ELSE [proxy |-> NoProxy, err |-> NewMethodNotFoundError(m)]

NewArgs(q, ps, o) == [qtumClient |-> q, proxies |-> ps, optErr |-> o]
NoArgs == NewArgs(Nil, <<>>, FALSE)

(* New(qtumClient, proxies, opts...), lines 20-44.  q: the client or nil;   *)
(* ps: the proxies; o: one of the options returns an error                  *)
New(q, ps, o) ==
    /\ tpc = "none"
    /\ newArgs' = NewArgs(q, ps, o)
    /\ LET r == RegisterAll(EmptyMap, ps, 1) IN
       IF q = Nil
       THEN /\ newErr' = ErrNilClient
            /\ tpc' = "failed"
            /\ transformers' = EmptyMap
       ELSE IF r.err # NilErr
       THEN /\ newErr' = r.err
            /\ tpc' = "failed"
            /\ transformers' = EmptyMap
       ELSE IF o
       THEN /\ newErr' = ErrOption
            /\ tpc' = "failed"
            /\ transformers' = EmptyMap
       ELSE /\ newErr' = NilErr
            /\ tpc' = "ready"
            /\ transformers' = r.tr
    /\ UNCHANGED <<regArg, regBefore, regErr, trReq, trRet, invoked>>
    /\ UNCHANGED <<clientVars, cancelled, callVars, obsVars, histVars, idVars, flagVars, ioVars, backoffVars, anVars>>

(* t.Register(p) on the Transformer New returned *)
RegisterCall(p) ==
    /\ tpc = "ready"
    /\ regArg' = p
    /\ regBefore' = transformers
    /\ regErr' = Register(transformers, p).err
    /\ transformers' = Register(transformers, p).tr
    /\ UNCHANGED <<tpc, newArgs, newErr, trReq, trRet, invoked>>
    /\ UNCHANGED <<clientVars, cancelled, callVars, obsVars, histVars, idVars, flagVars, ioVars, backoffVars, anVars>>

(* t.Transform(req, c), lines 63-73, for a request of method m *)
Transform(m) ==
    /\ tpc = "ready"
    /\ trReq' = m
    /\ LET g == getProxy(transformers, m) IN
       IF g.err # NoRPCError
       THEN /\ trRet' = [result |-> Nil, err |-> g.err]
            /\ invoked' = {}
       ELSE /\ invoked' = {g.proxy}
            /\ \E h \in HandlerResults(g.proxy) :
                  trRet' = IF h.err # NoRPCError
                           THEN [result |-> Nil, err |-> h.err]
                           ELSE [result |-> h.result, err |-> NoRPCError]
    /\ UNCHANGED <<transformers, tpc, newArgs, newErr, regArg, regBefore, regErr>>
    /\ UNCHANGED <<clientVars, cancelled, callVars, obsVars, histVars, idVars, flagVars, ioVars, backoffVars, anVars>>

----------------------------------------------------------------------------
(* NewRPCRequest, lines 311-327, step by step for goroutine g *)

Goroutines == 1..NumGoroutines

(* c.idMutex.Lock() *)
IdLock(g) ==
    /\ gpc[g] = "start"
    /\ idMutex = 0
    /\ idMutex' = g
    /\ gpc' = [gpc EXCEPT ![g] = "locked"]
    /\ UNCHANGED <<idWriting, gOwn, gReqID, id>>
    /\ UNCHANGED <<errorHandler, clientCtx, debug, logWriter, flags, cache, cancelled,
                   callVars, obsVars, histVars, regVars, flagVars, ioVars, backoffVars, anVars>>

(* c.id.Add(c.id, c.idStep) starts to rewrite the big.Int in place *)
IdAddBegin(g) ==
    /\ gpc[g] = "locked"
    /\ idWriting' = TRUE
    /\ gpc' = [gpc EXCEPT ![g] = "adding"]
    /\ UNCHANGED <<idMutex, gOwn, gReqID, id>>
    /\ UNCHANGED <<errorHandler, clientCtx, debug, logWriter, flags, cache, cancelled,
                   callVars, obsVars, histVars, regVars, flagVars, ioVars, backoffVars, anVars>>

(* ... and completes *)
IdAddEnd(g) ==
    /\ gpc[g] = "adding"
    /\ id' = id + 1
    /\ gOwn' = [gOwn EXCEPT ![g] = id + 1]
    /\ idWriting' = FALSE
    /\ gpc' = [gpc EXCEPT ![g] = "added"]
    /\ UNCHANGED <<idMutex, gReqID>>
    /\ UNCHANGED <<errorHandler, clientCtx, debug, logWriter, flags, cache, cancelled,
                   callVars, obsVars, histVars, regVars, flagVars, ioVars, backoffVars, anVars>>

(* c.idMutex.Unlock() *)
IdUnlock(g) ==
    /\ gpc[g] = "added"
    /\ idMutex' = 0
    /\ gpc' = [gpc EXCEPT ![g] = "unlocked"]
    /\ UNCHANGED <<idWriting, gOwn, gReqID, id>>
    /\ UNCHANGED <<errorHandler, clientCtx, debug, logWriter, flags, cache, cancelled,
                   callVars, obsVars, histVars, regVars, flagVars, ioVars, backoffVars, anVars>>

(* what c.id.String() reads without the mutex: the counter, or, while       *)
(* another goroutine's Add rewrites it, any value (a data race)             *)
IdRead == IF idWriting THEN 0..NumGoroutines ELSE {id}

(* the JSONRPCRequest is built with ID c.id.String() *)
IdBuild(g) ==
    /\ gpc[g] = "unlocked"
    /\ \E v \in IdRead : gReqID' = [gReqID EXCEPT ![g] = v]
    /\ gpc' = [gpc EXCEPT ![g] = "built"]
    /\ UNCHANGED <<idMutex, idWriting, gOwn, id>>
    /\ UNCHANGED <<errorHandler, clientCtx, debug, logWriter, flags, cache, cancelled,
                   callVars, obsVars, histVars, regVars, flagVars, ioVars, backoffVars, anVars>>

----------------------------------------------------------------------------
(* The flag store: SetFlag and GetFlag, lines 361-379, step by step for     *)
(* goroutine g.  c.mutex is a sync.RWMutex: Lock takes the writer slot and   *)
(* holds back new readers, then waits until the readers inside have left.   *)

FlagValues == {BoolValue(TRUE), BoolValue(FALSE)}

FlagOp(op, key, value) == [op |-> op, key |-> key, value |-> value]
NoFlagOp == FlagOp(Nil, Nil, NilValue)

(* who calls GetFlag(k): an application goroutine, or Do through GetFlagBool *)
(* at lines 247, 257 and 260                                                *)
GetFlagCaller(g, k) ==
    \/ gpc[g] = "app" /\ fOpsLeft > 0
    \/ gpc[g] \in {"do247", "do257"} /\ debug /\ k = FLAG_HIDE_QTUMD_LOGS
    \/ gpc[g] = "do260" /\ k = FLAG_DISABLE_SNIPPING_LOGS

(* where the caller continues when GetFlag has returned v *)
AfterGetFlag(g, v) ==
    CASE gpc[g] = "do247" -> "send"
      [] gpc[g] = "do257" -> IF FlagBool(v) THEN "classify" ELSE "do260"
      [] gpc[g] = "do260" -> "classify"
      [] OTHER            -> gpc[g]

(* SetFlag(k, v) is called: c.mutex.Lock() takes the writer slot *)
SetFlagLock(g, k, v) ==
    /\ gpc[g] = "app"
    /\ fOpsLeft > 0
    /\ fpc[g] = "idle"
    /\ fWriter = 0
    /\ fWriter' = g
    /\ fOp' = [fOp EXCEPT ![g] = FlagOp("set", k, v)]
    /\ fpc' = [fpc EXCEPT ![g] = "lockWait"]
    /\ fOpsLeft' = fOpsLeft - 1
    /\ UNCHANGED <<fReaders, fGot, lastSet>>
    /\ UNCHANGED <<clientVars, cancelled, callVars, obsVars, histVars, idVars, regVars, ioVars, backoffVars, anVars>>

(* ... and returns from Lock when no reader is inside *)
SetFlagAcquire(g) ==
    /\ fpc[g] = "lockWait"
    /\ fReaders = {}
    /\ fpc' = [fpc EXCEPT ![g] = "locked"]
    /\ UNCHANGED <<fWriter, fReaders, fOp, fGot, lastSet, fOpsLeft>>
    /\ UNCHANGED <<clientVars, cancelled, callVars, obsVars, histVars, idVars, regVars, ioVars, backoffVars, anVars>>

(* setFlagImpl: c.flags[key] = value *)
setFlagImpl(g) ==
    /\ fpc[g] = "locked"
    /\ flags' = [flags EXCEPT ![fOp[g].key] = fOp[g].value]
    /\ fpc' = [fpc EXCEPT ![g] = "written"]
    /\ UNCHANGED <<fWriter, fReaders, fOp, fGot, lastSet, fOpsLeft>>
    /\ UNCHANGED <<id, errorHandler, clientCtx, debug, logWriter, cache, cancelled,
                   callVars, obsVars, histVars, idVars, regVars, ioVars, backoffVars, anVars>>

(* the deferred c.mutex.Unlock(): SetFlag has completed *)
SetFlagUnlock(g) ==
    /\ fpc[g] = "written"
    /\ fWriter' = 0
    /\ lastSet' = [lastSet EXCEPT ![fOp[g].key] = fOp[g].value]
    /\ fpc' = [fpc EXCEPT ![g] = "idle"]
    /\ UNCHANGED <<fReaders, fOp, fGot, fOpsLeft>>
    /\ UNCHANGED <<clientVars, cancelled, callVars, obsVars, histVars, idVars, regVars, ioVars, backoffVars, anVars>>

(* a GetFlag that enters without the read lock *)
GetFlagNoRLock(g, k) ==
    /\ GetFlagCaller(g, k)
    /\ fpc[g] = "idle"
    /\ fOp' = [fOp EXCEPT ![g] = FlagOp("get", k, NilValue)]
    /\ fpc' = [fpc EXCEPT ![g] = "rlocked"]
    /\ fOpsLeft' = IF gpc[g] = "app" THEN fOpsLeft - 1 ELSE fOpsLeft
    /\ UNCHANGED <<fWriter, fReaders, fGot, lastSet>>
    /\ UNCHANGED <<clientVars, cancelled, callVars, obsVars, histVars, idVars, regVars, ioVars, backoffVars, anVars>>

(* GetFlag(k) is called: c.mutex.RLock() succeeds while no writer holds or  *)
(* waits for the mutex                                                      *)
GetFlagRLock(g, k) ==
    /\ GetFlagCaller(g, k)
    /\ fpc[g] = "idle"
    /\ fWriter = 0
    /\ fReaders' = fReaders \cup {g}
    /\ fOp' = [fOp EXCEPT ![g] = FlagOp("get", k, NilValue)]
    /\ fpc' = [fpc EXCEPT ![g] = "rlocked"]
    /\ fOpsLeft' = IF gpc[g] = "app" THEN fOpsLeft - 1 ELSE fOpsLeft
    /\ UNCHANGED <<fWriter, fGot, lastSet>>
    /\ UNCHANGED <<clientVars, cancelled, callVars, obsVars, histVars, idVars, regVars, ioVars, backoffVars, anVars>>

(* getFlagImpl: c.flags[key] *)
getFlagImpl(g) ==
    /\ fpc[g] = "rlocked"
    /\ fGot' = [fGot EXCEPT ![g] = flags[fOp[g].key]]
    /\ fpc' = [fpc EXCEPT ![g] = "read"]
    /\ UNCHANGED <<fWriter, fReaders, fOp, lastSet, fOpsLeft>>
    /\ UNCHANGED <<clientVars, cancelled, callVars, obsVars, histVars, idVars, regVars, ioVars, backoffVars, anVars>>

(* a GetFlag that returns without releasing the read lock *)
GetFlagKeepRLock(g) ==
    /\ fpc[g] = "read"
    /\ fpc' = [fpc EXCEPT ![g] = "idle"]
    /\ gpc' = [gpc EXCEPT ![g] = AfterGetFlag(g, fGot[g])]
    /\ UNCHANGED <<fWriter, fReaders, fOp, fGot, lastSet, fOpsLeft>>
    /\ UNCHANGED <<idMutex, idWriting, gOwn, gReqID>>
    /\ UNCHANGED <<clientVars, cancelled, callVars, obsVars, histVars, regVars, ioVars,
                   backoffVars, anVars>>

(* the deferred c.mutex.RUnlock(): GetFlag returns what it read *)
GetFlagRUnlock(g) ==
    /\ fpc[g] = "read"
    /\ fReaders' = fReaders \ {g}
    /\ fpc' = [fpc EXCEPT ![g] = "idle"]
    /\ gpc' = [gpc EXCEPT ![g] = AfterGetFlag(g, fGot[g])]
    /\ UNCHANGED <<fWriter, fOp, fGot, lastSet, fOpsLeft>>
    /\ UNCHANGED <<idMutex, idWriting, gOwn, gReqID>>
    /\ UNCHANGED <<clientVars, cancelled, callVars, obsVars, histVars, regVars, ioVars, backoffVars, anVars>>

----------------------------------------------------------------------------
(* Client.Do, lines 236-297, step by step for goroutine g: the flag reads   *)
(* of the debug logging before and after the upstream call, the call        *)
(* itself, and the classification of its answer                             *)

(* lines 236-247: the request is marshalled; the logging condition reads the *)
(* HIDE_QTUMD_LOGS flag when debug is on                                     *)
DoBegin(g) ==
    /\ gpc[g] = "built"
    /\ gpc' = [gpc EXCEPT ![g] = IF debug THEN "do247" ELSE "send"]
    /\ UNCHANGED <<idMutex, idWriting, gOwn, gReqID>>
    /\ UNCHANGED <<clientVars, cancelled, callVars, obsVars, histVars, regVars,
                   flagVars, ioVars, backoffVars, anVars>>

(* line 251: c.do sends the request; the goroutine waits for the upstream *)
DoSend(g) ==
    /\ gpc[g] = "send"
    /\ gpc' = [gpc EXCEPT ![g] = "io"]
    /\ UNCHANGED <<idMutex, idWriting, gOwn, gReqID>>
    /\ UNCHANGED <<clientVars, cancelled, callVars, obsVars, histVars, regVars,
                   flagVars, ioVars, backoffVars, anVars>>

(* lines 299-309: success() and failure(), each a no-op without analytics *)
Record(outcome) ==
    /\ successes' = IF analytics # Nil /\ outcome = "success"
                    THEN successes + 1 ELSE successes
    /\ failures' = IF analytics # Nil /\ outcome = "failure"
                   THEN failures + 1 ELSE failures
    /\ analytics' = analytics

(* lines 251-257: c.do returns with the upstream's reply r; a transport     *)
(* failure makes Do return at once                                          *)
DoReceive(g, r) ==
    /\ gpc[g] = "io"
    /\ gBody' = [gBody EXCEPT ![g] = r]
    /\ IF r.kind = "transport"
       THEN /\ gRes' = [gRes EXCEPT ![g] = Do(r, g)]
            /\ gpc' = [gpc EXCEPT ![g] = "returned"]
            /\ Record(DoOutcome(r, g))
       ELSE /\ gRes' = gRes
            /\ gpc' = [gpc EXCEPT ![g] = IF debug THEN "do257" ELSE "classify"]
            /\ UNCHANGED anVars
    /\ UNCHANGED <<idMutex, idWriting, gOwn, gReqID>>
    /\ UNCHANGED <<clientVars, cancelled, callVars, obsVars, histVars, regVars,
                   flagVars, backoffVars>>

(* lines 272-296: the body is parsed and the failure classified *)
DoClassify(g) ==
    /\ gpc[g] = "classify"
    /\ gRes' = [gRes EXCEPT ![g] = Do(gBody[g], g)]
    /\ gpc' = [gpc EXCEPT ![g] = "returned"]
    /\ Record(DoOutcome(gBody[g], g))
    /\ UNCHANGED <<gBody, idMutex, idWriting, gOwn, gReqID>>
    /\ UNCHANGED <<clientVars, cancelled, callVars, obsVars, histVars, regVars,
                   flagVars, backoffVars>>

-----
(* Spec: RequestWithContext *)

(* the outcome of a return: the call's locals and observations at "done" *)
Return(r, res) ==
    /\ pc' = "done"
    /\ ret' = r
    /\ result' = res

(* lines 149-177: the nil default of ctx, the cache lookup and, on a miss,  *)
(* NewRPCRequest.  a: the ctx argument, m, p: method and params, t: the     *)
(* type of *result.                                                        *)
RequestWithContext(a, m, p, t) ==
    /\ pc \in {"idle", "done"}
    /\ callsLeft > 0
    /\ a = "C" => clientCtx = "C"
    /\ callsLeft' = callsLeft - 1
    /\ ctxArg' = a
    /\ ctx' = IF a = Nil THEN clientCtx ELSE a
    /\ method' = m
    /\ params' = p
    /\ target' = t
    /\ prevSame' = (pc = "done" /\ ret = NilErr /\ method = m /\ params = p
                    /\ isCachable(m) /\ ~expiredSince)
    /\ prevAttempts' = IF prevSame' THEN attempts ELSE 0
    /\ expiredSince' = FALSE
    /\ attempts' = 0
    /\ handlerCalls' = 0
    /\ wqdFails' = 0
    /\ sleeps' = <<>>
    /\ interrupted' = FALSE
    /\ stored' = Nil
    /\ i' = 0
    /\ err' = NilErr
    /\ resp' = Nil
    /\ handledErrors' = {}
    /\ retry' = FALSE
    /\ handlerArgs' = <<>>
    /\ recovered' = <<>>
    /\ cachedResult' = CacheLookup(m, p)
    /\ req' = IF cachedResult' # Nil THEN 0 ELSE id + 1
    /\ hit' = (cachedResult' # Nil)
    /\ IF cachedResult' # Nil
       THEN IF ~Unmarshal(cachedResult', t)
            THEN /\ Return(WrapUnmarshal(1), Nil)
                 /\ id' = id
            ELSE IF debug /\ ~GetFlagBool(FLAG_HIDE_QTUMD_LOGS)
            THEN \* printRPCRequest builds a request of its own and prints it
                 /\ id' = id + 1
                 /\ Return(IF logWriter = Nil THEN Panic ELSE NilErr, cachedResult')
            ELSE /\ id' = id
                 /\ Return(NilErr, cachedResult')
       ELSE \* NewRPCRequest
            /\ id' = id + 1
            /\ pc' = "loop"
            /\ ret' = NilErr
            /\ result' = Nil
    /\ UNCHANGED <<errorHandler, clientCtx, debug, logWriter, flags, cache, cancelled,
                   idVars, regVars, flagVars, ioVars, backoffVars, anVars>>

(* a tail of the call that stores the response before it unmarshals it *)
AfterLoopStoreFirst(raw) ==
    /\ IF isCachable(method)
       THEN /\ cache' = storeResponse(method, params, raw)
            /\ stored' = raw
       ELSE UNCHANGED <<cache, stored>>
    /\ IF ~Unmarshal(raw, target)
       THEN Return(WrapUnmarshal(attempts + 1), Nil)
       ELSE Return(NilErr, raw)

(* lines 223-233, after the loop: res is the response the loop left in resp, *)
(* nil when its last attempt failed, and resp.RawResult dereferences it     *)
AfterLoop(raw) ==
    IF raw = Nil
    THEN /\ Return(Panic, Nil)
         /\ UNCHANGED <<cache, stored>>
    ELSE IF ~Unmarshal(raw, target)
    THEN /\ Return(WrapUnmarshal(attempts + 1), Nil)
         /\ UNCHANGED <<cache, stored>>
    ELSE /\ Return(NilErr, raw)
         /\ IF isCachable(method)
            THEN /\ cache' = storeResponse(method, params, raw)
                 /\ stored' = raw
            ELSE UNCHANGED <<cache, stored>>

(* line 183 after an iteration: i++, then the loop condition; when it is    *)
(* false the loop is left with res in resp                                  *)
NextIteration(res) ==
    /\ i' = i + 1
    /\ IF LoopContinues(i + 1)
       THEN /\ pc' = "loop"
            /\ UNCHANGED <<ret, result, cache, stored>>
       ELSE AfterLoop(res)

(* a backoff computed with the index of the coming attempt *)
EnterBackoffNextIndex(idx) ==
    /\ sleeps' = Append(sleeps, idx + 1)
    /\ pc' = "sleep"
    /\ i' = i
    /\ UNCHANGED <<ret, result, interrupted, cache, stored>>

(* lines 196-211: the backoff select is entered with index idx *)
EnterBackoff(idx) ==
    /\ sleeps' = Append(sleeps, idx)
    /\ \E rnd \in RandomDraws :
          LET backoffTime == computeBackoff(idx, TRUE, rnd) IN
          IF DoneClosed
          THEN \* done is ready at once; the timer too when the backoff is zero
               \/ /\ pc' = "woken"
                  /\ i' = i
                  /\ UNCHANGED <<ret, result, cache, stored>>
               \/ /\ backoffTime <= 0
                  /\ NextIteration(resp')
          ELSE /\ pc' = "sleep"
               /\ i' = i
               /\ UNCHANGED <<ret, result, cache, stored>>
    /\ UNCHANGED interrupted

(* lines 184-221: one iteration of the loop up to its select, break or return; *)
(* r: the upstream's reply; h: what the error handler returns                  *)
Attempt(r) ==
    /\ pc = "loop"
    /\ LET d == Do(r, attempts + 1) IN
       /\ attempts' = attempts + 1
       /\ err' = d.err
       /\ resp' = d.res
       /\ wqdFails' = IF d.err = ErrQtumWorkQueueDepth THEN wqdFails + 1 ELSE wqdFails
       /\ Record(DoOutcome(r, attempts + 1))
       /\ IF d.err = NilErr
          THEN /\ AfterLoop(d.res)
               /\ UNCHANGED <<handledErrors, retry, handlerCalls, handlerArgs, recovered,
                              sleeps, i, interrupted>>
          ELSE IF d.err = Panic
          THEN \* Do panicked: the goroutine unwinds through the loop
               /\ Return(Panic, Nil)
               /\ UNCHANGED <<handledErrors, retry, handlerCalls, handlerArgs, recovered,
                              sleeps, i, interrupted, cache, stored>>
          ELSE IF errorHandler = Nil
          THEN \* the call of a nil func value
               /\ Return(Panic, Nil)
               /\ UNCHANGED <<handledErrors, retry, handlerCalls, handlerArgs, recovered,
                              sleeps, i, interrupted, cache, stored>>
          ELSE /\ handlerCalls' = handlerCalls + 1
               /\ handlerArgs' = Append(handlerArgs, d.err)
               /\ \E h \in HandlerReturns(d.err) :
                     /\ handledErrors' = HandledAfter(d.err, h, i)
                     /\ retry' = HandlerRetry(h, i)
                     /\ recovered' = IF HandlerRetry(h, i) /\ ~ContainsWorkQueueDepth(d.err)
                                     THEN Append(recovered, d.err) ELSE recovered
                     /\ IF ShouldBackoff(HandlerRetry(h, i), d.err, i)
                        THEN EnterBackoff(i)
                        ELSE /\ Return(d.err, Nil)
                             /\ UNCHANGED <<sleeps, i, interrupted, cache, stored>>
    /\ UNCHANGED <<id, errorHandler, clientCtx, debug, logWriter, flags, cancelled,
                   ctxArg, ctx, method, params, target, cachedResult, req, hit,
                   callsLeft, prevSame, prevAttempts, expiredSince, idVars, regVars, flagVars, ioVars, backoffVars>>

(* line 207: the timer of time.After fires while the goroutine waits *)
BackoffTimer ==
    /\ pc = "sleep"
    /\ NextIteration(resp)
    /\ UNCHANGED <<id, errorHandler, clientCtx, debug, logWriter, flags, cancelled,
                   ctxArg, ctx, method, params, target, cachedResult,
                   req, err, resp, handledErrors, retry, attempts, handlerCalls, wqdFails,
                   sleeps, interrupted, hit, handlerArgs, recovered, histVars, idVars,
                   regVars, flagVars, ioVars, backoffVars, anVars>>

(* lines 208-209: the done case of the select *)
BackoffDone ==
    /\ pc = "woken"
    /\ interrupted' = TRUE
    /\ Return(WithMessage(CtxErr(ctx), attempts), Nil)
    /\ UNCHANGED <<clientVars, cancelled, ctxArg, ctx, method, params, target, cachedResult,
                   req, i, err, resp, handledErrors, retry, attempts, handlerCalls, wqdFails,
                   sleeps, hit, stored, handlerArgs, recovered, histVars, idVars, regVars, flagVars, ioVars, backoffVars, anVars>>

(* the owner of context c cancels it; a goroutine waiting on its Done channel *)
(* is woken on the done case                                                  *)
Cancel(c) ==
    /\ c \notin cancelled
    /\ c = "C" => clientCtx = "C"
    /\ cancelled' = cancelled \cup {c}
    /\ pc' = IF pc = "sleep" /\ clientCtx = c THEN "woken" ELSE pc
    /\ UNCHANGED <<clientVars, ctxArg, ctx, method, params, target, cachedResult, req, i,
                   err, resp, handledErrors, retry, ret, result, obsVars, histVars, idVars, regVars, flagVars, ioVars, backoffVars, anVars>>

(* the handlers SetErrorHandler may be given: nil, or a function; what a     *)
(* function answers is chosen at each of its calls (HandlerReturns), so one *)
(* value stands for every function                                          *)
Handlers == {Nil, "set"}

(* lines 129-131: the field is overwritten, at any time, without a lock; a  *)
(* call racing with the read of line 186 is seen by it or not               *)
SetErrorHandler(h) ==
    /\ errorHandler' = h
    /\ UNCHANGED <<id, clientCtx, debug, logWriter, flags, cache, cancelled, callVars,
                   obsVars, histVars, idVars, regVars, flagVars, ioVars, backoffVars, anVars>>

(* the TTL of a cache entry runs out *)
CacheExpire(k) ==
    /\ cache[k] # Nil
    /\ cache' = [cache EXCEPT ![k] = Nil]
    /\ expiredSince' = TRUE
    /\ UNCHANGED <<id, errorHandler, clientCtx, debug, logWriter, flags, cancelled,
                   callVars, obsVars, callsLeft, prevSame, prevAttempts, idVars, regVars, flagVars, ioVars, backoffVars, anVars>>

(* The options NewClient was given: <<debug, logWriter, HIDE_QTUMD_LOGS>>,  *)
(* with the mature block height as a fourth when that option is given and  *)
(* the analytics as a fifth                                                *)
NoDebug == <<FALSE, Nil, NilValue>>
ClientOptions ==
    { NoDebug, <<TRUE, "set", NilValue>>, <<TRUE, Nil, NilValue>>,
      <<TRUE, "set", BoolValue(TRUE)>> }

MatureOptions ==
    { <<FALSE, Nil, NilValue, SetMatureBlockHeight(h)>> : h \in {Nil} \cup Heights }

AnalyticsOptions == { <<FALSE, Nil, NilValue, NilValue, "set">> }

IdleID ==
    /\ idMutex = 0
    /\ idWriting = FALSE
    /\ gpc = [g \in 1..NumGoroutines |-> "built"]
    /\ gOwn = [g \in 1..NumGoroutines |-> 0]
    /\ gReqID = [g \in 1..NumGoroutines |-> 0]

IdleFlag ==
    /\ fWriter = 0
    /\ fReaders = {}
    /\ fpc = [g \in 1..NumGoroutines |-> "idle"]
    /\ fOp = [g \in 1..NumGoroutines |-> NoFlagOp]
    /\ fGot = [g \in 1..NumGoroutines |-> NilValue]
    /\ lastSet = flags

IdleIO ==
    /\ gBody = [g \in 1..NumGoroutines |-> NoReply]
    /\ gRes = [g \in 1..NumGoroutines |-> NoDoResult]

IdleBackoff ==
    /\ boIdx = 0
    /\ boRandom = FALSE
    /\ boDraw = 0
    /\ boTime = -1

IdleReg ==
    /\ transformers = EmptyMap
    /\ tpc = "failed"
    /\ newArgs = NoArgs
    /\ newErr = NilErr
    /\ regArg = NoProxy
    /\ regBefore = EmptyMap
    /\ regErr = NilErr
    /\ trReq = Nil
    /\ trRet = NoReturn
    /\ invoked = {}

IdleCall ==
    /\ pc = "idle"
    /\ ctxArg = Nil
    /\ ctx = Nil
    /\ method = Nil
    /\ params = Nil
    /\ target = Nil
    /\ cachedResult = Nil
    /\ req = 0
    /\ i = 0
    /\ err = NilErr
    /\ resp = Nil
    /\ handledErrors = {}
    /\ retry = FALSE
    /\ handlerArgs = <<>>
    /\ recovered = <<>>
    /\ ret = NilErr
    /\ result = Nil
    /\ attempts = 0
    /\ handlerCalls = 0
    /\ wqdFails = 0
    /\ sleeps = <<>>
    /\ interrupted = FALSE
    /\ hit = FALSE
    /\ prevSame = FALSE
    /\ prevAttempts = 0
    /\ expiredSince = FALSE
    /\ stored = Nil
    /\ cancelled = {}

(* NewClient(opts): lines 104-126; ctxs: the SetContext options, opts: the *)
(* logging options the client may have been given                          *)
NewClient(ctxs, opts) ==
    /\ id = 0
    /\ errorHandler = Nil
    /\ clientCtx \in ctxs
    /\ \E o \in opts :
          /\ debug = o[1]
          /\ logWriter = o[2]
          /\ flags = [k \in FlagKeys |->
                        IF k = FLAG_HIDE_QTUMD_LOGS THEN o[3]
                        ELSE IF k = FLAG_MATURE_BLOCK_HEIGHT_OVERRIDE /\ Len(o) = 4 THEN o[4]
                        ELSE NilValue]
          /\ analytics = IF Len(o) = 5 THEN o[5] ELSE Nil
    /\ cache = [k \in CacheKeys |-> Nil]
    /\ successes = 0
    /\ failures = 0

(* ---- Spec: one call on a new client, against every upstream reply, every *)
(* handler answer and every cancellation                                    *)
Init ==
    /\ NewClient({Nil, "C"}, {NoDebug})
    /\ callsLeft = 1
    /\ IdleCall
    /\ IdleID
    /\ IdleReg
    /\ IdleFlag
    /\ fOpsLeft = 0
    /\ IdleIO
    /\ IdleBackoff

RetryReplies ==
    {Reply("transport", Nil), Reply("wqdtext", Nil), Reply("503", Nil),
     Reply("rpcKnown", Nil)} \cup Results

Next ==
    \/ \E a \in {Nil} \cup Contexts, m \in Methods, t \in Targets :
          RequestWithContext(a, m, "p1", t)
    \/ \E r \in RetryReplies : Attempt(r)
    \/ BackoffTimer
    \/ BackoffDone
    \/ \E c \in Contexts : Cancel(c)
    \/ \E h \in Handlers : SetErrorHandler(h)

Spec == Init /\ [][Next]_vars

(* ---- SpecCache: calls one after the other on a client with a cache; the  *)
(* upstream is busy or answers, the handler recovers nothing                *)
InitCache ==
    /\ NewClient({"C"}, ClientOptions)
    /\ callsLeft = MaxCalls
    /\ IdleCall
    /\ IdleID
    /\ IdleReg
    /\ IdleFlag
    /\ fOpsLeft = 0
    /\ IdleIO
    /\ IdleBackoff

CacheReplies == {Reply("wqdtext", Nil), Reply("rpcKnown", Nil)} \cup Results

NextCache ==
    \/ \E m \in Methods, p \in ParamValues, t \in Targets :
          RequestWithContext("R", m, p, t)
    \/ \E r \in CacheReplies : Attempt(r)
    \/ BackoffTimer
    \/ BackoffDone
    \/ Cancel("C")
    \/ \E h \in Handlers : SetErrorHandler(h)
    \/ \E k \in CacheKeys : CacheExpire(k)

SpecCache == InitCache /\ [][NextCache]_vars

----------------------------------------------------------------------------
(* Claims about the retry loop (Spec) *)

(* the attempts of the call that failed: only its last one can succeed *)
FailedAttempts == IF err = NilErr /\ attempts > 0 THEN attempts - 1 ELSE attempts

(* every failed attempt of the call found an error handler at line 186 *)
Handled == handlerCalls = FailedAttempts

(* the call has returned after at least one upstream attempt, and each of   *)
(* its failures was passed to an error handler                              *)
Returned == pc = "done" /\ Handled /\ attempts >= 1

EveryAttemptBusy == wqdFails = attempts

(* C1, as stated: one call issues at most 5 attempts, whatever the upstream *)
(* and the error handler do; when every attempt fails with the              *)
(* work-queue-depth error it issues exactly 5 and returns that error.        *)
C1_AsStated ==
    /\ attempts <= 5
    /\ (Returned /\ EveryAttemptBusy) =>
          (attempts = 5 /\ ret = ErrQtumWorkQueueDepth)

(* C1, amended: the same, for a call none of whose backoff waits was ended  *)
(* by the cancellation signal.                                              *)
C1_AttemptBound ==
    /\ attempts <= 5
    /\ (Returned /\ EveryAttemptBusy /\ ~interrupted) =>
          (attempts = 5 /\ ret = ErrQtumWorkQueueDepth)

C1_Witness ==
    Returned /\ EveryAttemptBusy /\ ~interrupted /\ attempts = 5
    /\ ret = ErrQtumWorkQueueDepth /\ handledErrors # {}

(* C2: with a handler and no cancellation, k busy answers (1 <= k < 5)      *)
(* followed by a valid result give success with that result after k + 1     *)
(* attempts: the call does not give up before attempt k + 1, and it returns *)
(* the result of that attempt.                                              *)
C2_BusyThenResult ==
    (Returned /\ cancelled = {}) =>
        /\ EveryAttemptBusy => attempts = 5
        /\ (err = NilErr /\ wqdFails >= 1 /\ wqdFails = attempts - 1
                /\ Unmarshal(resp, target)) =>
              (ret = NilErr /\ result = resp /\ attempts <= 5)

C2_Witness ==
    Returned /\ cancelled = {} /\ wqdFails = 2 /\ attempts = 3 /\ err = NilErr
    /\ ret = NilErr /\ result = "jsonNumber" /\ handledErrors = {}

(* C3: a backoff wait ended by the cancellation signal makes the call       *)
(* return a non-nil cancelled-context error, never nil.                     *)
C3_InterruptedReturnsError ==
    (pc = "done" /\ interrupted) => ret.kind = "ContextCancelledMessage"

(* C4: cancelling the context passed to the call while the call sleeps in a *)
(* backoff ends the sleep at once, and the woken call returns the cancelled *)
(* error without another attempt.                                           *)
C4_CancelEndsSleep ==
    [][ /\ (pc = "sleep" /\ ctx # Nil /\ ctx \notin cancelled /\ ctx \in cancelled')
            => pc' = "woken"
        /\ (pc = "woken" /\ ctx \in cancelled /\ pc' # "woken")
            => (pc' = "done" /\ ret'.kind = "ContextCancelledMessage"
                /\ attempts' = attempts) ]_vars

----------------------------------------------------------------------------
(* SpecID: the goroutines call NewRPCRequest at the same time *)

InitID ==
    /\ NewClient({Nil}, {NoDebug})
    /\ callsLeft = 0
    /\ IdleCall
    /\ IdleReg
    /\ IdleFlag
    /\ fOpsLeft = 0
    /\ IdleIO
    /\ IdleBackoff
    /\ idMutex = 0
    /\ idWriting = FALSE
    /\ gpc = [g \in Goroutines |-> "start"]
    /\ gOwn = [g \in Goroutines |-> 0]
    /\ gReqID = [g \in Goroutines |-> 0]

NextID ==
    \/ \E g \in Goroutines : IdLock(g)
    \/ \E g \in Goroutines : IdAddBegin(g)
    \/ \E g \in Goroutines : IdAddEnd(g)
    \/ \E g \in Goroutines : IdUnlock(g)
    \/ \E g \in Goroutines : IdBuild(g)

SpecID == InitID /\ [][NextID]_vars

(* SpecReg: the method registry *)

ProxyLists ==
    UNION { [1..n -> Proxies] : n \in 0..MaxProxies }

InitReg ==
    /\ NewClient({Nil}, {NoDebug})
    /\ callsLeft = 0
    /\ IdleCall
    /\ IdleID
    /\ IdleFlag
    /\ fOpsLeft = 0
    /\ IdleIO
    /\ IdleBackoff
    /\ transformers = EmptyMap
    /\ tpc = "none"
    /\ newArgs = NoArgs
    /\ newErr = NilErr
    /\ regArg = NoProxy
    /\ regBefore = EmptyMap
    /\ regErr = NilErr
    /\ trReq = Nil
    /\ trRet = NoReturn
    /\ invoked = {}

NextReg ==
    \/ \E q \in {Nil, "qtum"}, ps \in ProxyLists, o \in BOOLEAN : New(q, ps, o)
    \/ \E p \in Proxies : RegisterCall(p)
    \/ \E m \in RequestMethods : Transform(m)

SpecReg == InitReg /\ [][NextReg]_vars

----------------------------------------------------------------------------
(* Claims about request IDs (SpecID) *)

(* C5: any two requests built by NewRPCRequest carry different IDs, each    *)
(* the counter value produced by its own call's increment.                  *)
C5_UniqueIDs ==
    \A g \in Goroutines :
        gpc[g] = "built" =>
            /\ gReqID[g] = gOwn[g]
            /\ \A h \in Goroutines \ {g} : gpc[h] = "built" => gReqID[h] # gReqID[g]

----------------------------------------------------------------------------
(* Claims about the response cache (SpecCache) *)

CallKey == <<method, params>>

(* a step that starts a call *)
CallStarts == callsLeft' = callsLeft - 1

(* C6: the cache is written only by a call of a whitelisted method in which *)
(* an upstream attempt succeeded, with that attempt's raw result; a call    *)
(* that returns an error, is cancelled in a backoff or cannot unmarshal the *)
(* result writes nothing.                                                   *)
C6_StoreOnlyOnSuccess ==
    /\ [](stored # Nil =>
            /\ pc = "done" /\ isCachable(method) /\ ~hit
            /\ err = NilErr /\ resp = stored
            /\ ret = NilErr /\ result = stored /\ ~interrupted
            /\ Unmarshal(stored, target))
    /\ [][cache' # cache =>
            \/ /\ pc = "loop" /\ stored' # Nil
               /\ cache' = [cache EXCEPT ![CallKey] = stored']
            \/ \E k \in CacheKeys : cache[k] # Nil /\ cache' = [cache EXCEPT ![k] = Nil]
         ]_vars

C6_Witness ==
    pc = "done" /\ stored = "jsonNumber" /\ cache[CallKey] = "jsonNumber" /\ wqdFails = 1

(* C7: when the cache holds a result for the method and params of a         *)
(* whitelisted method, the call is answered from those bytes with no        *)
(* upstream attempt, no handler invocation and no backoff, also when the    *)
(* bytes do not unmarshal.                                                  *)
C7_HitBypassesUpstream ==
    /\ [][(CallStarts /\ isCachable(method') /\ cache[<<method', params'>>] # Nil) =>
            (hit' /\ pc' = "done" /\ cachedResult' = cache[<<method', params'>>])]_vars
    /\ [](hit =>
            /\ pc = "done" /\ attempts = 0 /\ handlerCalls = 0 /\ sleeps = <<>>
            /\ req = 0 /\ stored = Nil
            /\ IF Unmarshal(cachedResult, target)
               THEN ret \in {NilErr, Panic} /\ result = cachedResult
               ELSE ret.kind = "UnmarshalResult" /\ result = Nil)

C7_Witness ==
    hit /\ pc = "done" /\ ret.kind = "UnmarshalResult" /\ cachedResult = "jsonNumber"

(* C8, for a first request that made one upstream attempt: two successive   *)
(* identical requests of a whitelisted method, the second started after the *)
(* first returned successfully and nothing expired, cause exactly one       *)
(* upstream call in total.                                                  *)
C8_OneUpstreamCall ==
    (pc = "done" /\ prevSame /\ prevAttempts = 1) => prevAttempts + attempts = 1

----------------------------------------------------------------------------
(* Claims about the registry (SpecReg) *)

SharedMethod(ps) ==
    \E a, b \in 1..Len(ps) : a # b /\ ps[a].method = ps[b].method

(* C9: Register(p) fails when p's method is registered and then leaves the  *)
(* registry as it was; otherwise it adds exactly method -> p.  New returns  *)
(* an error and no Transformer when two of its proxies share a method.      *)
C9_DuplicateRejected ==
    /\ regArg # NoProxy =>
          IF regArg.method \in DOMAIN regBefore
          THEN regErr # NilErr /\ transformers = regBefore
          ELSE /\ regErr = NilErr
               /\ DOMAIN transformers = DOMAIN regBefore \cup {regArg.method}
               /\ transformers[regArg.method] = regArg
               /\ \A m \in DOMAIN regBefore : transformers[m] = regBefore[m]
    /\ (tpc # "none" /\ SharedMethod(newArgs.proxies)) =>
          (tpc = "failed" /\ newErr # NilErr)

C9_Witness ==
    /\ tpc = "ready" /\ Len(newArgs.proxies) = 2
    /\ regArg = Proxy("OtherETHCall", "eth_call") /\ regErr = ErrMethodExists
    /\ transformers["eth_call"] = Proxy("ProxyETHCall", "eth_call")

(* C10: Transform of a request whose method has no handler returns the      *)
(* method-not-found error, code -32601, naming the method, with no result   *)
(* and without invoking a handler.                                          *)
C10_MethodNotFound ==
    (tpc = "ready" /\ trReq # Nil /\ trReq \notin DOMAIN transformers) =>
        /\ trRet.err.code = -32601
        /\ trRet.err.message = trReq
        /\ trRet.result = Nil
        /\ invoked = {}

C10_Witness ==
    /\ tpc = "ready" /\ trReq = "eth_foo" /\ trRet.err.code = -32601
    /\ DOMAIN transformers = {"eth_call", "eth_chainId"}

(* C11: once New has returned the Transformer, no operation on it changes   *)
(* the method -> handler map.                                               *)
C11_RegistryImmutable ==
    [][tpc = "ready" => transformers' = transformers]_vars

----------------------------------------------------------------------------
(* SpecFlag: application goroutines call SetFlag and GetFlag at the same time *)

InitFlag ==
    /\ NewClient({Nil}, {NoDebug, <<TRUE, "set", BoolValue(TRUE)>>})
    /\ callsLeft = 0
    /\ IdleCall
    /\ IdleReg
    /\ IdleIO
    /\ IdleBackoff
    /\ idMutex = 0
    /\ idWriting = FALSE
    /\ gpc = [g \in Goroutines |-> "app"]
    /\ gOwn = [g \in Goroutines |-> 0]
    /\ gReqID = [g \in Goroutines |-> 0]
    /\ IdleFlag
    /\ fOpsLeft = MaxFlagOps

NextFlag ==
    \/ \E g \in Goroutines, k \in LogFlagKeys, v \in FlagValues : SetFlagLock(g, k, v)
    \/ \E g \in Goroutines : SetFlagAcquire(g)
    \/ \E g \in Goroutines : setFlagImpl(g)
    \/ \E g \in Goroutines : SetFlagUnlock(g)
    \/ \E g \in Goroutines, k \in LogFlagKeys : GetFlagRLock(g, k)
    \/ \E g \in Goroutines : getFlagImpl(g)
    \/ \E g \in Goroutines : GetFlagRUnlock(g)

SpecFlag == InitFlag /\ [][NextFlag]_vars

(* a goroutine is inside the write section of the flag map *)
Writing(g) == fpc[g] \in {"locked", "written"}

(* a goroutine is inside the read section of the flag map *)
Reading(g) == fpc[g] \in {"rlocked", "read"}

(* C12: a writer of the flag map overlaps no other writer and no reader;    *)
(* GetFlag(k) returns the value of the latest completed SetFlag(k, v), nil   *)
(* when there was none; SetFlag(k, v) changes key k only.                    *)
C12_FlagStoreSafe ==
    /\ [](\A g \in Goroutines : Writing(g) =>
              \A h \in Goroutines \ {g} : ~Writing(h) /\ ~Reading(h))
    /\ [](\A g \in Goroutines : fpc[g] = "read" => fGot[g] = lastSet[fOp[g].key])
    /\ [][flags' # flags =>
            \E g \in Goroutines :
                /\ fpc[g] = "locked" /\ fpc'[g] = "written"
                /\ flags' = [flags EXCEPT ![fOp[g].key] = fOp[g].value]
                /\ \A k \in FlagKeys \ {fOp[g].key} : flags'[k] = flags[k]]_vars

C12_Witness ==
    /\ fpc[1] = "read" /\ fOp[1].key = FLAG_DISABLE_SNIPPING_LOGS
    /\ fGot[1] = BoolValue(FALSE)
    /\ fpc[2] = "lockWait" /\ fOp[2] = FlagOp("set", FLAG_DISABLE_SNIPPING_LOGS, BoolValue(TRUE))
    /\ flags[FLAG_HIDE_QTUMD_LOGS] = BoolValue(TRUE)
    /\ fpc[3] = "read" /\ fOp[3].key = FLAG_HIDE_QTUMD_LOGS

----------------------------------------------------------------------------
(* SpecBackoff: computeBackoff(i, random) for every index up to MaxIndex and *)
(* every value of the random draw                                           *)

InitBackoff ==
    /\ NewClient({Nil}, {NoDebug})
    /\ callsLeft = 0
    /\ IdleCall
    /\ IdleID
    /\ IdleReg
    /\ IdleFlag
    /\ fOpsLeft = 0
    /\ IdleIO
    /\ boIdx \in 0..MaxIndex
    /\ boRandom \in BOOLEAN
    /\ boDraw \in IF boRandom THEN AllDraws ELSE {0}
    /\ boTime = -1

ComputeBackoffCall ==
    /\ boTime = -1
    /\ boTime' = computeBackoff(boIdx, boRandom, boDraw)
    /\ UNCHANGED <<boIdx, boRandom, boDraw>>
    /\ UNCHANGED <<clientVars, cancelled, callVars, obsVars, histVars, idVars, regVars,
                   flagVars, ioVars, anVars>>

NextBackoff == ComputeBackoffCall

SpecBackoff == InitBackoff /\ [][NextBackoff]_vars

(* the jitter of the call: the draw moved to -250..249, 0 without random *)
JitterOfCall == IF boRandom THEN boDraw - 250 ELSE 0

(* C13: for every index i >= 0 the backoff is min(2000 ms, 250 * 2^i ms + j) *)
(* with the jitter j in [-250 ms, +250 ms]; it is never negative and never  *)
(* more than 2000 ms.                                                       *)
C13_BackoffRange ==
    boTime # -1 =>
        /\ JitterOfCall \in -250..250
        /\ boTime = Min(2000, 250 * Pow2(boIdx) + JitterOfCall)
        /\ boTime >= 0
        /\ boTime <= 2000

C13_Witness ==
    boIdx = 0 /\ boRandom /\ boDraw = 0 /\ boTime = 0

----------------------------------------------------------------------------
(* Claims about the error handler and the surfaced error (Spec) *)

NoDuplicates(seq) ==
    \A a, b \in 1..Len(seq) : a # b => seq[a] # seq[b]

(* C14: within one call the error handler is invoked once per distinct      *)
(* error: no error is passed to it twice.                                   *)
C14_HandlerOncePerError ==
    Len(handlerArgs) = handlerCalls /\ NoDuplicates(handlerArgs)

(* the last attempt failed with an error that is not work-queue-depth, on a *)
(* client with an error handler                                             *)
FailedNotBusy ==
    Handled /\ attempts >= 1 /\ err # NilErr /\ ~ContainsWorkQueueDepth(err)

(* C16, as stated: a failure that is not work-queue-depth and that the      *)
(* handler does not make retryable is returned at once, with no backoff and *)
(* no further attempt; every call that returns an error after a failed      *)
(* attempt returns the error of its last attempt.                           *)
C16_AsStated ==
    /\ (FailedNotBusy /\ ~retry) =>
          (pc = "done" /\ ret = err /\ Len(sleeps) = attempts - 1)
    /\ (Returned /\ ret # NilErr /\ err # NilErr) => ret = err

(* C16, amended: the same, the second half for the calls whose last attempt *)
(* failed and none of whose backoffs was ended by the cancellation signal.  *)
C16_SurfaceError ==
    /\ (FailedNotBusy /\ ~retry) =>
          (pc = "done" /\ ret = err /\ Len(sleeps) = attempts - 1)
    /\ (Returned /\ ret # NilErr /\ err # NilErr /\ ~interrupted) => ret = err

C16_Witness ==
    /\ Returned /\ ~retry /\ ~interrupted /\ attempts = 2 /\ sleeps = <<0>>
    /\ err.kind = "ClientDo" /\ ret = err /\ handledErrors # {}

(* C17: of the retries made on the handler's answer alone (the error is not *)
(* work-queue-depth) at most one is made for any given error.               *)
C17_RecoverOncePerError ==
    NoDuplicates(recovered)

(* C18, as stated: a transport failure on an attempt that is not the last   *)
(* is followed by a backoff and another attempt; only the failure of the    *)
(* final, fifth attempt is returned.                                        *)
C18_AsStated ==
    (Returned /\ err.kind = "ClientDo" /\ ~interrupted) => attempts = 5

(* C18, amended: a transport failure on an attempt that is not the last is  *)
(* followed by a backoff and another attempt when the handler's answer      *)
(* makes it retryable; otherwise, and on the fifth attempt, it is returned  *)
(* at once.                                                                 *)
C18_TransportRetry ==
    /\ (Handled /\ err.kind = "ClientDo" /\ retry) =>
          /\ attempts < 5
          /\ Len(sleeps) = attempts
          /\ pc = "done" => interrupted
    /\ (Handled /\ err.kind = "ClientDo" /\ ~retry) =>
          (pc = "done" /\ ret = err /\ Len(sleeps) = attempts - 1)
    /\ (Handled /\ err.kind = "ClientDo" /\ attempts = 5) => ~retry

C18_Witness ==
    /\ Returned /\ attempts = 5 /\ err = Error("ClientDo", 5) /\ ret = err
    /\ Cardinality(handledErrors) = 4 /\ sleeps = <<0, 1, 2, 3>> /\ wqdFails = 0

(* C20: every attempt after the first is preceded by exactly one backoff,   *)
(* computed with the index of the attempt that just failed; no backoff      *)
(* follows the last attempt: a call that made k attempts and was not cut    *)
(* short by cancellation slept k - 1 times, with the indices 0 .. k-2.      *)
C20_OneSleepPerRetry ==
    attempts >= 1 =>
        /\ sleeps = [k \in 1..Len(sleeps) |-> k - 1]
        /\ pc = "loop" => Len(sleeps) = attempts
        /\ pc \in {"sleep", "woken"} => Len(sleeps) = attempts
        /\ (pc = "done" /\ ~interrupted) => Len(sleeps) = attempts - 1
        /\ (pc = "done" /\ interrupted) => Len(sleeps) = attempts

C20_Witness ==
    /\ pc = "done" /\ ~interrupted /\ attempts = 3 /\ sleeps = <<0, 1>>
    /\ ret = NilErr /\ result # Nil

----------------------------------------------------------------------------
(* SpecIO: two goroutines go through NewRPCRequest and Do while the other   *)
(* goroutines set flags                                                     *)

Requesters == {1, 2}

IOReplies == {Reply("transport", Nil), Reply("result", "jsonString")}

InitIO ==
    /\ NewClient({Nil}, {NoDebug, <<TRUE, "set", NilValue>>})
    /\ callsLeft = 0
    /\ IdleCall
    /\ IdleReg
    /\ IdleIO
    /\ IdleBackoff
    /\ idMutex = 0
    /\ idWriting = FALSE
    /\ gpc = [g \in Goroutines |-> IF g \in Requesters THEN "start" ELSE "app"]
    /\ gOwn = [g \in Goroutines |-> 0]
    /\ gReqID = [g \in Goroutines |-> 0]
    /\ IdleFlag
    /\ fOpsLeft = 1

NextIO ==
    \/ \E g \in Goroutines : IdLock(g)
    \/ \E g \in Goroutines : IdAddBegin(g)
    \/ \E g \in Goroutines : IdAddEnd(g)
    \/ \E g \in Goroutines : IdUnlock(g)
    \/ \E g \in Goroutines : IdBuild(g)
    \/ \E g \in Goroutines : DoBegin(g)
    \/ \E g \in Goroutines : DoSend(g)
    \/ \E g \in Goroutines, r \in IOReplies : DoReceive(g, r)
    \/ \E g \in Goroutines : DoClassify(g)
    \/ \E g \in Goroutines, v \in FlagValues : SetFlagLock(g, FLAG_HIDE_QTUMD_LOGS, v)
    \/ \E g \in Goroutines : SetFlagAcquire(g)
    \/ \E g \in Goroutines : setFlagImpl(g)
    \/ \E g \in Goroutines : SetFlagUnlock(g)
    \/ \E g \in Goroutines, k \in LogFlagKeys : GetFlagRLock(g, k)
    \/ \E g \in Goroutines : getFlagImpl(g)
    \/ \E g \in Goroutines : GetFlagRUnlock(g)

SpecIO == InitIO /\ [][NextIO]_vars

(* goroutine g holds the ID mutex / the flag-store mutex *)
HoldsIdMutex(g) == idMutex = g
HoldsFlagMutex(g) == g \in fReaders \/ fWriter = g

(* C15: while the upstream call of a goroutine is in progress the goroutine *)
(* holds neither the ID mutex nor the flag-store mutex.                     *)
C15_NoMutexAcrossIO ==
    \A g \in Goroutines :
        gpc[g] = "io" => (~HoldsIdMutex(g) /\ ~HoldsFlagMutex(g) /\ fpc[g] = "idle")

C15_Witness ==
    /\ gpc[1] = "io" /\ debug /\ fOp[1] = FlagOp("get", FLAG_HIDE_QTUMD_LOGS, NilValue)
    /\ idMutex = 2
    /\ fWriter = 3

----------------------------------------------------------------------------
(* SpecDo: one goroutine builds a request and calls Do against every answer *)
(* of the upstream                                                          *)

InitDo ==
    /\ NewClient({Nil}, ClientOptions)
    /\ callsLeft = 0
    /\ IdleCall
    /\ IdleReg
    /\ IdleIO
    /\ IdleBackoff
    /\ idMutex = 0
    /\ idWriting = FALSE
    /\ gpc = [g \in Goroutines |-> IF g = 1 THEN "start" ELSE "app"]
    /\ gOwn = [g \in Goroutines |-> 0]
    /\ gReqID = [g \in Goroutines |-> 0]
    /\ IdleFlag
    /\ fOpsLeft = 0

NextDo ==
    \/ IdLock(1)
    \/ IdAddBegin(1)
    \/ IdAddEnd(1)
    \/ IdUnlock(1)
    \/ IdBuild(1)
    \/ DoBegin(1)
    \/ DoSend(1)
    \/ \E r \in Replies : DoReceive(1, r)
    \/ DoClassify(1)
    \/ \E k \in LogFlagKeys : GetFlagRLock(1, k)
    \/ getFlagImpl(1)
    \/ GetFlagRUnlock(1)

SpecDo == InitDo /\ [][NextDo]_vars

(* the body is a JSON-RPC response with an error member the table knows / *)
(* does not know                                                          *)
HasKnownError(r) == r.kind \in {"rpcKnown", "rpcKnown503"}
HasUnknownError(r) == r.kind \in {"rpcUnknown", "rpcUnknown503"}

(* C19: Do classifies a failed response in this order: empty body -> the    *)
(* 'empty response' error; error object in the known-error table -> the     *)
(* mapped error; body equal to the work-queue-depth text ->                 *)
(* ErrQtumWorkQueueDepth; body containing '503 Service Unavailable' ->      *)
(* ErrInternalError; any other failure unchanged.  A result is returned     *)
(* only for a response without an error member.                             *)
C19_Classification ==
    gpc[1] = "returned" =>
        LET r   == gBody[1]
            out == gRes[1]
        IN  /\ out.res # Nil => (r.kind = "result" /\ out.res = r.raw /\ out.err = NilErr)
            /\ r.kind = "result" => out.res = r.raw
            /\ r.kind \notin {"result", "transport", "null"} =>
                  /\ out.res = Nil
                  /\ out.err =
                        IF IsEmptyBody(r) THEN Error("EmptyResponse", 1)
                        ELSE IF HasKnownError(r) THEN ErrKnown
                        ELSE IF IsWorkQueueDepthText(r) THEN ErrQtumWorkQueueDepth
                        ELSE IF Contains503(r) THEN ErrInternalError
                        ELSE IF HasUnknownError(r) THEN Error("RPCError", 1)
                        ELSE Error("JSONSyntax", 1)

C19_Witness ==
    /\ gpc[1] = "returned" /\ gBody[1].kind = "rpcKnown503" /\ gRes[1].err = ErrKnown
    /\ debug /\ fOp[1].key = FLAG_DISABLE_SNIPPING_LOGS

----------------------------------------------------------------------------
(* Claims about a client without an error handler (Spec) *)

(* C21: on a client on which SetErrorHandler was never called a request     *)
(* whose attempt fails still completes: the call returns the attempt's      *)
(* error, or retries on work-queue-depth, and does not crash.  A call that  *)
(* failed and invoked no handler is one whose first failure found none.     *)
C21_NoHandlerNoCrash ==
    (pc = "done" /\ handlerCalls = 0 /\ attempts >= 1 /\ err # NilErr) =>
        (ret # Panic /\ (~ContainsWorkQueueDepth(err) => ret = err))

----------------------------------------------------------------------------
(* SpecOpt: a client built with SetMatureBlockHeight(h); goroutines read     *)
(* and overwrite the mature-block-height flag                               *)

IntValues == {Value("int", h) : h \in Heights}

InitOpt ==
    /\ NewClient({Nil}, MatureOptions)
    /\ callsLeft = 0
    /\ IdleCall
    /\ IdleReg
    /\ IdleIO
    /\ IdleBackoff
    /\ idMutex = 0
    /\ idWriting = FALSE
    /\ gpc = [g \in Goroutines |-> "app"]
    /\ gOwn = [g \in Goroutines |-> 0]
    /\ gReqID = [g \in Goroutines |-> 0]
    /\ IdleFlag
    /\ fOpsLeft = 2

NextOpt ==
    \/ \E g \in Goroutines, v \in IntValues :
          SetFlagLock(g, FLAG_MATURE_BLOCK_HEIGHT_OVERRIDE, v)
    \/ \E g \in Goroutines : SetFlagAcquire(g)
    \/ \E g \in Goroutines : setFlagImpl(g)
    \/ \E g \in Goroutines : SetFlagUnlock(g)
    \/ \E g \in Goroutines : GetFlagRLock(g, FLAG_MATURE_BLOCK_HEIGHT_OVERRIDE)
    \/ \E g \in Goroutines : getFlagImpl(g)
    \/ \E g \in Goroutines : GetFlagRUnlock(g)

SpecOpt == InitOpt /\ [][NextOpt]_vars

(* goroutine g is in GetFlagInt(FLAG_MATURE_BLOCK_HEIGHT_OVERRIDE) and has  *)
(* read the flag                                                            *)
ReadsMature(g) ==
    fpc[g] = "read" /\ fOp[g].key = FLAG_MATURE_BLOCK_HEIGHT_OVERRIDE

(* C22: with the value of SetMatureBlockHeight(h) in the flag store,        *)
(* GetFlagInt(FLAG_MATURE_BLOCK_HEIGHT_OVERRIDE) returns h for a non-nil h   *)
(* and nil for a nil h.                                                     *)
C22_MatureHeightRoundTrip ==
    \A g \in Goroutines :
        ReadsMature(g) =>
            \A h \in {Nil} \cup Heights :
                lastSet[FLAG_MATURE_BLOCK_HEIGHT_OVERRIDE] = SetMatureBlockHeight(h)
                    => FlagInt(fGot[g]) = h

----------------------------------------------------------------------------
(* Claims about the exit of the retry loop (Spec) *)

(* the call went past the loop to line 223: it was not answered from the    *)
(* cache, not interrupted in a backoff, and did not return an attempt's     *)
(* error                                                                    *)
ReachedUnmarshal ==
    /\ pc = "done"
    /\ Handled
    /\ ~hit
    /\ ~interrupted
    /\ attempts >= 1
    /\ ~(err # NilErr /\ ret = err)

(* C23: when RequestWithContext reaches the unmarshalling after the retry   *)
(* loop, the response it reads is the non-nil response of a successful      *)
(* attempt: the loop is never left with its last attempt failed and no      *)
(* error returned, for every number of attempts from 1 to 5.                *)
C23_LoopLeftBySuccess ==
    ReachedUnmarshal =>
        /\ err = NilErr
        /\ resp # Nil
        /\ ret # Panic
        /\ attempts \in 1..MaxAttempts

(* the fifth and last attempt succeeds and its response is unmarshalled *)
C23_Witness ==
    /\ ReachedUnmarshal
    /\ attempts = MaxAttempts
    /\ i = MaxAttempts - 1
    /\ resp # Nil
    /\ ret = NilErr

----------------------------------------------------------------------------
(* SpecAnalytics: calls one after the other on a client built with           *)
(* SetAnalytics; the upstream fails, is busy, answers, or answers null      *)

InitAnalytics ==
    /\ NewClient({Nil}, AnalyticsOptions)
    /\ callsLeft = MaxCalls
    /\ IdleCall
    /\ IdleID
    /\ IdleReg
    /\ IdleFlag
    /\ fOpsLeft = 0
    /\ IdleIO
    /\ IdleBackoff

AnalyticsReplies ==
    {Reply("transport", Nil), Reply("wqdtext", Nil), Reply("null", Nil)} \cup Results

NextAnalytics ==
    \/ \E t \in Targets : RequestWithContext(Nil, "getblock", "p1", t)
    \/ \E r \in AnalyticsReplies : Attempt(r)
    \/ BackoffTimer
    \/ \E h \in Handlers : SetErrorHandler(h)

SpecAnalytics == InitAnalytics /\ [][NextAnalytics]_vars

(* the step is a call of Do: an upstream attempt of the running request *)
DoCalled == attempts' = attempts + 1

(* C24: every call of Do records exactly one analytics outcome, Failure if   *)
(* and only if it returns an error and Success if and only if it returns a  *)
(* result; no other step of a request, a cache hit among them, records one, *)
(* so successes plus failures equals the number of upstream attempts.       *)
C24_OneOutcomePerDo ==
    [][analytics # Nil =>
          IF DoCalled
          THEN /\ successes' + failures' = successes + failures + 1
               /\ (failures' = failures + 1) <=> (err' # NilErr)
               /\ (successes' = successes + 1) <=> (err' = NilErr)
          ELSE /\ successes' = successes
               /\ failures' = failures]_vars

====
